---------------------------- MODULE Spec2Model ----------------------------
(***************************************************************************)
(* The 2D Ising simulation: the Metropolis engine (performMCS), the domain *)
(* analyzer (analyzeDomains) and the App component that schedules them     *)
(* (loop, handleStep, handleReset, the size-change effect).                *)
(*                                                                         *)
(* Arrays are functions on 0..len-1, so that every index expression of the *)
(* source is kept as written.  Reals are fixed point: the accumulator and  *)
(* the speed factors are IEEE doubles held as whole numbers of 2^-56,      *)
(* probabilities and draws are whole numbers of 10^-6, temperatures whole  *)
(* numbers of 10^-3.                                                       *)
(***************************************************************************)
EXTENDS Integers, Sequences, FiniteSets, TLC

\* ------------------------------------------------------------- arrays ----

Length(a) == Cardinality(DOMAIN a)

Last(q) == q[Len(q)]

Front(q) == SubSeq(q, 1, Len(q) - 1)

\* types.ts: Spin = 1 | -1
Spin == {1, -1}

\* Every Int8Array of n*n spins createGrid can return.
Lattices(n) == [0 .. n * n - 1 -> Spin]

\* createGrid: n*n cells, each 1 or -1 by an independent Math.random() draw;
\* coin[i] is the outcome of the test Math.random() > 0.5 for cell i.
createGrid(n, coin) == [i \in 0 .. n * n - 1 |-> IF coin[i] THEN 1 ELSE -1]

\* The coin sequences of one createGrid(n) call.
Coins(n) == [0 .. n * n - 1 -> BOOLEAN]

\* new Int8Array(grid): an independent copy with the same cells.
copyOf(grid) == [i \in DOMAIN grid |-> grid[i]]

\* ------------------------------------------------- Metropolis engine ----

\* Math.exp(-dE / temperature), rounded up to the next 10^-6, for the
\* temperatures of the model (in 10^-3): exp(-4) = 0.0183156.., exp(-8) =
\* 0.000335462.., exp(-4/2.269) = 0.171548.., exp(-8/2.269) = 0.0294288...
\* None of the values is a multiple of 10^-6, so for a draw u that is one,
\* u < exp(..) holds exactly when u < MathExpNeg.
MathExpNeg(dE, temperature) ==
    CASE dE = 4 /\ temperature = 1000 -> 18316
      [] dE = 8 /\ temperature = 1000 -> 336
      [] dE = 4 /\ temperature = 2269 -> 171549
      [] dE = 8 /\ temperature = 2269 -> 29429

\* performMCS lines 26-29: the acceptance table, keyed by 4 and 8.
makeExpTable(temperature) == [dE \in {4, 8} |-> MathExpNeg(dE, temperature)]

\* Math.random() < expTable[dE]; a key the table lacks reads undefined, and
\* a comparison with undefined is false.
drawBelow(u, table, dE) == IF dE \in DOMAIN table THEN u < table[dE] ELSE FALSE

\* neighborSum without the bottom neighbour.
neighborSumNoBottom(grid, N, idx) ==
    LET x == idx % N
        y == idx \div N
        left == grid[y * N + ((x - 1 + N) % N)]
        right == grid[y * N + ((x + 1) % N)]
        top == grid[((y - 1 + N) % N) * N + x]
    IN  left + right + top

\* performMCS lines 34-45: the four periodic neighbours of site idx.
neighborSum(grid, N, idx) ==
    LET x == idx % N
        y == idx \div N
        left == grid[y * N + ((x - 1 + N) % N)]
        right == grid[y * N + ((x + 1) % N)]
        top == grid[((y - 1 + N) % N) * N + x]
        bottom == grid[((y + 1) % N) * N + x]
    IN  left + right + top + bottom

\* energyDelta without the factor 2.
energyDeltaHalf(grid, N, idx) == grid[idx] * neighborSum(grid, N, idx)

\* performMCS line 52
energyDelta(grid, N, idx) == 2 * grid[idx] * neighborSum(grid, N, idx)

\* accepts with the test dE < 0: a neutral move is put to the draw.
acceptsStrict(dE, u, table) == IF dE < 0 THEN TRUE ELSE drawBelow(u, table, dE)

\* performMCS lines 54-60: whether the attempt at idx flips the site; u is
\* the draw of line 57 (read only when dE > 0).
accepts(dE, u, table) == IF dE <= 0 THEN TRUE ELSE drawBelow(u, table, dE)

\* flipAttempt that accepts every move.
flipAttemptAlways(grid, N, idx, u, table) == [grid EXCEPT ![idx] = -grid[idx]]

\* performMCS lines 37-60: the lattice after one flip attempt at idx.
flipAttempt(grid, N, idx, u, table) ==
    LET s == grid[idx]
        dE == energyDelta(grid, N, idx)
    IN  IF accepts(dE, u, table) THEN [grid EXCEPT ![idx] = -s] ELSE grid

\* ---------------------------------------------------- domain analyzer ----

\* analyzeDomains line 73
getIdx(x, y, N) == y * N + x

\* neighborsOf with the edges clamped instead of wrapped.
neighborsOfClamped(curr, N) ==
    LET cx == curr % N
        cy == curr \div N
    IN  << getIdx(IF cx + 1 < N THEN cx + 1 ELSE cx, cy, N),
           getIdx(IF cx > 0 THEN cx - 1 ELSE cx, cy, N),
           getIdx(cx, IF cy + 1 < N THEN cy + 1 ELSE cy, N),
           getIdx(cx, IF cy > 0 THEN cy - 1 ELSE cy, N) >>

\* analyzeDomains lines 89-98: the neighbours of curr, in the order tested.
neighborsOf(curr, N) ==
    LET cx == curr % N
        cy == curr \div N
    IN  << getIdx((cx + 1) % N, cy, N),
           getIdx((cx - 1 + N) % N, cy, N),
           getIdx(cx, (cy + 1) % N, N),
           getIdx(cx, (cy - 1 + N) % N, N) >>

\* analyzeDomains lines 100-106: the loop over the neighbours; st holds
\* visited and queue.
RECURSIVE pushNeighbors(_, _, _, _, _)
pushNeighbors(grid, spinType, nbrs, j, st) ==
    IF j > Len(nbrs) THEN st
    ELSE LET nIdx == nbrs[j]
         IN  IF st.visited[nIdx] = 0 /\ grid[nIdx] = spinType
             THEN pushNeighbors(grid, spinType, nbrs, j + 1,
                      [st EXCEPT !.visited[nIdx] = 1,
                                 !.queue = Append(st.queue, nIdx)])
             ELSE pushNeighbors(grid, spinType, nbrs, j + 1, st)

\* popFrom that empties the queue: the entries pushed before are lost.
popFromLosing(queue) == [curr |-> Last(queue), rest |-> <<>>]

\* analyzeDomains line 86: queue.pop() takes the entry pushed last.
popFrom(queue) == [curr |-> Last(queue), rest |-> Front(queue)]

\* analyzeDomains lines 85-107: the flood fill; st holds visited, queue,
\* currentSize and, for the record, the cells popped.
RECURSIVE floodFill(_, _, _, _)
floodFill(grid, N, spinType, st) ==
    IF Len(st.queue) = 0 THEN st
    ELSE LET p == popFrom(st.queue)
             popped == [st EXCEPT !.queue = p.rest,
                                  !.currentSize = st.currentSize + 1,
                                  !.cells = Append(st.cells, p.curr)]
         IN  floodFill(grid, N, spinType,
                 pushNeighbors(grid, spinType, neighborsOf(p.curr, N), 1, popped))

\* scanCells without the test of line 78: a visited cell starts a fill too.
RECURSIVE scanCellsNoSkip(_, _, _, _)
scanCellsNoSkip(grid, N, pos, acc) ==
    IF pos >= N * N THEN acc
    ELSE LET startIdx == getIdx(pos % N, pos \div N, N)
             done == floodFill(grid, N, grid[startIdx],
                         [visited |-> [acc.visited EXCEPT ![startIdx] = 1],
                          queue |-> <<startIdx>>,
                          currentSize |-> 0,
                          cells |-> <<>>])
         IN  scanCellsNoSkip(grid, N, pos + 1,
                 [visited |-> done.visited,
                  clusterSizes |-> Append(acc.clusterSizes, done.currentSize),
                  clusters |-> Append(acc.clusters, done.cells)])

\* analyzeDomains lines 75-110: the scan over the start cells; row-major
\* (y outer, x inner), so startIdx = getIdx(x, y) runs 0, 1, .., N*N-1.
\* acc holds visited, clusterSizes and the cells of each cluster found.
RECURSIVE scanCells(_, _, _, _)
scanCells(grid, N, pos, acc) ==
    IF pos >= N * N THEN acc
    ELSE LET x == pos % N
             y == pos \div N
             startIdx == getIdx(x, y, N)
         IN  IF acc.visited[startIdx] # 0 THEN scanCells(grid, N, pos + 1, acc)
             ELSE LET done == floodFill(grid, N, grid[startIdx],
                                  [visited |-> [acc.visited EXCEPT ![startIdx] = 1],
                                   queue |-> <<startIdx>>,
                                   currentSize |-> 0,
                                   cells |-> <<>>])
                  IN  scanCells(grid, N, pos + 1,
                          [visited |-> done.visited,
                           clusterSizes |-> Append(acc.clusterSizes, done.currentSize),
                           clusters |-> Append(acc.clusters, done.cells)])

\* analyzeDomains lines 70-110: the clusters found on the lattice.
findClusters(grid, N) ==
    scanCells(grid, N, 0,
        [visited |-> [i \in 0 .. N * N - 1 |-> 0],
         clusterSizes |-> <<>>,
         clusters |-> <<>>])

\* analyzeDomains lines 113-116: distribution[s] = (distribution[s] || 0) + 1
RECURSIVE tally(_, _, _)
tally(clusterSizes, j, distribution) ==
    IF j > Len(clusterSizes) THEN distribution
    ELSE LET s == clusterSizes[j]
         IN  IF s \in DOMAIN distribution
             THEN tally(clusterSizes, j + 1, [distribution EXCEPT ![s] = @ + 1])
             ELSE tally(clusterSizes, j + 1,
                      [t \in DOMAIN distribution \cup {s} |->
                          IF t = s THEN 1 ELSE distribution[t]])

\* sortedEntries with the comparator b.size - a.size: descending.
RECURSIVE sortedEntriesDescending(_)
sortedEntriesDescending(distribution) ==
    IF DOMAIN distribution = {} THEN <<>>
    ELSE LET s == CHOOSE m \in DOMAIN distribution :
                      \A t \in DOMAIN distribution : m >= t
             rest == [t \in DOMAIN distribution \ {s} |-> distribution[t]]
         IN  <<[size |-> s, count |-> distribution[s]]>>
                 \o sortedEntriesDescending(rest)

\* analyzeDomains lines 119-121: the entries as {size, count}, sorted by
\* a.size - b.size; the keys of an object are distinct, so the order is
\* the ascending order of the sizes.
RECURSIVE sortedEntries(_)
sortedEntries(distribution) ==
    IF DOMAIN distribution = {} THEN <<>>
    ELSE LET s == CHOOSE m \in DOMAIN distribution :
                      \A t \in DOMAIN distribution : m <= t
             rest == [t \in DOMAIN distribution \ {s} |-> distribution[t]]
         IN  <<[size |-> s, count |-> distribution[s]]>> \o sortedEntries(rest)

\* analyzeDomains lines 68-122
analyzeDomains(grid, N) ==
    sortedEntries(tally(findClusters(grid, N).clusterSizes, 1, <<>>))

\* ------------------------------------------------------------ doubles ----

\* A double d >= 0 below 32 is the pair <<h, l>> with d = (h * 2^30 + l) *
\* 2^-56 and 0 <= l < 2^30.  Every speed factor of the model and every sum
\* of them is a whole number of 2^-56.
Limb == 2 ^ 30

UnitHigh == 2 ^ 26

RECURSIVE bitLength(_)
bitLength(n) == IF n = 0 THEN 0 ELSE 1 + bitLength(n \div 2)

\* The sum of two such numbers, not rounded.
exactAdd(a, b) ==
    LET l == a[2] + b[2]
    IN  <<a[1] + b[1] + (l \div Limb), l % Limb>>

\* Round to nearest, ties to even, to the 53 significant bits of a double:
\* a number of 30 + bitLength(h) bits keeps its top 53 and drops r low bits.
roundDouble(a) ==
    IF bitLength(a[1]) <= 23 THEN a
    ELSE LET r == bitLength(a[1]) - 23
             m == 2 ^ r
             q == a[2] \div m
             rem == a[2] % m
             up == rem * 2 > m \/ (rem * 2 = m /\ q % 2 = 1)
             l == (IF up THEN q + 1 ELSE q) * m
         IN  <<a[1] + (l \div Limb), l % Limb>>

\* a + b in double arithmetic (loop line 55)
doubleAdd(a, b) == roundDouble(exactAdd(a, b))

\* Math.floor(a) (loop line 58)
doubleFloor(a) == a[1] \div UnitHigh

\* doubleSubInt that drops the fraction: the accumulator is zeroed.
doubleSubIntAll(a, n) == <<0, 0>>

\* a - n in double arithmetic, for a whole n <= a (loop line 62)
doubleSubInt(a, n) == roundDouble(<<a[1] - n * UnitHigh, a[2]>>)

\* a < 1 (loop line 76)
doubleBelowOne(a) == a[1] < UnitHigh

DoubleZero == <<0, 0>>

\* ---------------------------------------------------------------- App ----

\* App line 8: SIZES = [32, 64, 100, 128, 200], scaled down to sides whose
\* lattices can be enumerated.
SIZES == <<1, 2>>

\* App line 9: DEFAULT_SIZE is one of SIZES.
DEFAULT_SIZE == SIZES[2]

\* App line 10 and types.ts line 14: CRITICAL_TEMPERATURE = 2.269, in 10^-3.
DEFAULT_TEMP == 2269

\* The positions of the temperature slider the model moves to, in 10^-3
\* (App lines 136-140: 0.1 to 5.0 in steps of 0.01, and the default).
Temperatures == {1000, DEFAULT_TEMP}

\* App line 13: SPEED_LEVELS, by 0-based index, as doubles.  0.01 (index 0)
\* is no whole number of 2^-56 and is left out.
SPEED_LEVELS ==
    [i \in 1 .. 9 |->
        CASE i = 1 -> <<3355443, 214748365>>       \* 0.05
          [] i = 2 -> <<6710886, 429496730>>       \* 0.1
          [] i = 3 -> <<UnitHigh \div 4, 0>>       \* 0.25
          [] i = 4 -> <<UnitHigh \div 2, 0>>       \* 0.5
          [] i = 5 -> <<UnitHigh, 0>>              \* 1
          [] i = 6 -> <<2 * UnitHigh, 0>>          \* 2
          [] i = 7 -> <<5 * UnitHigh, 0>>          \* 5
          [] i = 8 -> <<10 * UnitHigh, 0>>         \* 10
          [] i = 9 -> <<20 * UnitHigh, 0>>]        \* 20

\* App line 14
DEFAULT_SPEED_INDEX == 5

\* The values Math.random() returns at performMCS line 57, in 10^-6.
Draws == {100, 10000, 100000, 500000}

\* No draw was made (dE <= 0).
NoDraw == -1

\* The effects of App (lines 36, 37, 38, 41-49 and 87-90), by dependency.
Effects == {"isRunning", "temperature", "speedIndex", "size", "loop"}

VARIABLES
    size, temperature, speedIndex, isRunning, gridData, stats,   \* useState
    gridRef, runningRef, tempRef, sizeRef, speedRef,             \* useRef
    accumulatorRef, frameCountRef,
    gridDataIsLive,   \* gridData is the array object gridRef.current
    pending,          \* effects of the last commit that have not run yet
    pc,               \* "idle", or "mcs" inside a performMCS call
    caller,           \* who called performMCS: "loop" or "step"
    updatesToPerform, \* loop line 58
    i,                \* loop line 65
    k,                \* performMCS line 31
    expTable,         \* performMCS line 26
    call,             \* the operation under way or last finished, and the
                      \* performMCS and analyzeDomains calls it has made
    att,              \* the last flip attempt: its site, its draw, the spin
                      \* it found there, and the attempts made so far
    win               \* the ticks observed since the window started

progVars == <<size, temperature, speedIndex, isRunning, gridData, stats,
              gridRef, runningRef, tempRef, sizeRef, speedRef,
              accumulatorRef, frameCountRef, gridDataIsLive, pending,
              pc, caller, updatesToPerform, i, k, expTable>>

vars == <<progVars, call, att, win>>

\* The frames with sweeps the model follows after a reset (frameCountRef
\* grows without bound in the source).
MaxFrames == 3

\* The running ticks the model follows after the accumulator was zeroed.
MaxTicks == 11

NoCall(op) == [op |-> op, mcs |-> 0, analyses |-> 0]

NoWindow == [ticks |-> 0, owed |-> DoubleZero, done |-> 0]

\* App lines 18-33: the first render.  useState(() => createGrid(..)) makes
\* the lattice, useRef(gridData) shares it; every effect is still to run.
InitApp(n, coin) ==
    /\ size = n
    /\ temperature = DEFAULT_TEMP
    /\ speedIndex = DEFAULT_SPEED_INDEX
    /\ isRunning = FALSE
    /\ gridData = createGrid(n, coin)
    /\ stats = <<>>
    /\ gridRef = gridData
    /\ gridDataIsLive = TRUE
    /\ runningRef = isRunning
    /\ tempRef = temperature
    /\ sizeRef = size
    /\ speedRef = SPEED_LEVELS[DEFAULT_SPEED_INDEX]
    /\ accumulatorRef = DoubleZero
    /\ frameCountRef = 0
    /\ pending = Effects
    /\ pc = "idle"
    /\ caller = "none"
    /\ updatesToPerform = 0
    /\ i = 0
    /\ k = 0
    /\ expTable = <<>>
    /\ call = NoCall("mount")
    /\ att = [idx |-> 0, u |-> NoDraw, s |-> 1, n |-> 0]
    /\ win = NoWindow

\* performMCS lines 19-31: entry, called by who.
enterMCS(who) ==
    /\ pc' = "mcs"
    /\ caller' = who
    /\ k' = 0
    /\ expTable' = makeExpTable(tempRef)

\* The locals of a call that has returned.
leaveMCS ==
    /\ pc' = "idle"
    /\ caller' = "none"
    /\ updatesToPerform' = 0
    /\ i' = 0
    /\ k' = 0
    /\ expTable' = <<>>

\* sizeEffect that takes the new size and keeps the old lattice.
sizeEffectKeepGrid(coin) ==
    /\ sizeRef' = size
    /\ stats' = <<>>
    /\ isRunning' = FALSE
    /\ accumulatorRef' = DoubleZero
    /\ UNCHANGED <<gridRef, gridData, gridDataIsLive>>

\* sizeEffect without setStats([]): the stats of the old lattice stay.
sizeEffectKeepStats(coin) ==
    LET newGrid == createGrid(size, coin)
    IN  /\ sizeRef' = size
        /\ gridRef' = newGrid
        /\ gridData' = newGrid
        /\ gridDataIsLive' = TRUE
        /\ isRunning' = FALSE
        /\ accumulatorRef' = DoubleZero
        /\ UNCHANGED stats

\* App lines 41-49: the effect of a size change (and of the mount).
sizeEffect(coin) ==
    LET newGrid == createGrid(size, coin)
    IN  /\ sizeRef' = size
        /\ gridRef' = newGrid
        /\ gridData' = newGrid
        /\ gridDataIsLive' = TRUE
        /\ stats' = <<>>
        /\ isRunning' = FALSE
        /\ accumulatorRef' = DoubleZero

\* App lines 36-49 and 87-90: the effects of the last commit, in the order
\* of their declaration.  React runs them after the render that changed
\* their dependency and before the next event or animation frame.  The
\* size effect's setIsRunning(false) changes isRunning when the simulation
\* was running: one more render, whose isRunning effect is then pending.
\* coins holds the outcomes of the draws of the size effect's createGrid.
runEffectsWith(coins) ==
    /\ pc = "idle"
    /\ pending # {}
    /\ runningRef' = IF "isRunning" \in pending THEN isRunning ELSE runningRef
    /\ tempRef' = IF "temperature" \in pending THEN temperature ELSE tempRef
    /\ speedRef' = IF "speedIndex" \in pending THEN SPEED_LEVELS[speedIndex] ELSE speedRef
    /\ IF "size" \in pending
       THEN /\ \E coin \in coins : sizeEffect(coin)
            /\ pending' = IF isRunning THEN {"isRunning"} ELSE {}
       ELSE /\ UNCHANGED <<sizeRef, gridRef, gridData, gridDataIsLive, stats,
                           isRunning, accumulatorRef>>
            /\ pending' = {}
    /\ call' = NoCall("effects")
    /\ UNCHANGED <<size, temperature, speedIndex, frameCountRef,
                   pc, caller, updatesToPerform, i, k, expTable>>

\* The effects, with any outcome of the draws of createGrid.
runEffects == runEffectsWith(Coins(size))

\* App line 162: the size slider moves to n.
setSizeTo(n) ==
    /\ pc = "idle"
    /\ pending = {}
    /\ n # size
    /\ size' = n
    /\ pending' = {"size"}
    /\ call' = NoCall("setSize")
    /\ UNCHANGED <<temperature, speedIndex, isRunning, gridData, stats, gridRef,
                   runningRef, tempRef, sizeRef, speedRef, accumulatorRef,
                   frameCountRef, gridDataIsLive, pc, caller, updatesToPerform,
                   i, k, expTable>>

\* App line 140: the temperature slider moves to t.
setTemperatureTo(t) ==
    /\ pc = "idle"
    /\ pending = {}
    /\ t # temperature
    /\ temperature' = t
    /\ pending' = {"temperature"}
    /\ call' = NoCall("setTemperature")
    /\ UNCHANGED <<size, speedIndex, isRunning, gridData, stats, gridRef,
                   runningRef, tempRef, sizeRef, speedRef, accumulatorRef,
                   frameCountRef, gridDataIsLive, pc, caller, updatesToPerform,
                   i, k, expTable>>

\* App line 183: the speed slider moves to index j.
setSpeedIndexTo(j) ==
    /\ pc = "idle"
    /\ pending = {}
    /\ j # speedIndex
    /\ speedIndex' = j
    /\ pending' = {"speedIndex"}
    /\ call' = NoCall("setSpeedIndex")
    /\ UNCHANGED <<size, temperature, isRunning, gridData, stats, gridRef,
                   runningRef, tempRef, sizeRef, speedRef, accumulatorRef,
                   frameCountRef, gridDataIsLive, pc, caller, updatesToPerform,
                   i, k, expTable>>

\* App line 197: the start/stop button.
toggleRunning ==
    /\ pc = "idle"
    /\ pending = {}
    /\ isRunning' = ~isRunning
    /\ pending' = {"isRunning"}
    /\ call' = NoCall("toggle")
    /\ UNCHANGED <<size, temperature, speedIndex, gridData, stats, gridRef,
                   runningRef, tempRef, sizeRef, speedRef, accumulatorRef,
                   frameCountRef, gridDataIsLive, pc, caller, updatesToPerform,
                   i, k, expTable>>

\* resetBody without setStats([]).
resetBodyKeepStats(coin) ==
    LET newGrid == createGrid(size, coin)
    IN  /\ gridRef' = newGrid
        /\ gridData' = newGrid
        /\ gridDataIsLive' = TRUE
        /\ isRunning' = FALSE
        /\ frameCountRef' = 0
        /\ accumulatorRef' = DoubleZero
        /\ UNCHANGED stats

\* App lines 93-101
resetBody(coin) ==
    LET newGrid == createGrid(size, coin)
    IN  /\ gridRef' = newGrid
        /\ gridData' = newGrid
        /\ gridDataIsLive' = TRUE
        /\ stats' = <<>>
        /\ isRunning' = FALSE
        /\ frameCountRef' = 0
        /\ accumulatorRef' = DoubleZero

\* App lines 93-101 and 216: the reset button.
handleReset ==
    /\ pc = "idle"
    /\ pending = {}
    /\ \E coin \in Coins(size) : resetBody(coin)
    /\ pending' = IF isRunning THEN {"isRunning"} ELSE {}
    /\ call' = NoCall("reset")
    /\ UNCHANGED <<size, temperature, speedIndex, runningRef, tempRef, sizeRef,
                   speedRef, pc, caller, updatesToPerform, i, k, expTable>>

\* App lines 103-104 and 208-209: the step button (disabled while running)
\* enters performMCS.
handleStep ==
    /\ pc = "idle"
    /\ pending = {}
    /\ ~isRunning
    /\ enterMCS("step")
    /\ call' = NoCall("step")
    /\ UNCHANGED <<size, temperature, speedIndex, isRunning, gridData, stats,
                   gridRef, runningRef, tempRef, sizeRef, speedRef,
                   accumulatorRef, frameCountRef, gridDataIsLive, pending,
                   updatesToPerform, i>>

\* stepAfterMCS that counts the frame as loop does.
stepAfterMCSCounted ==
    /\ gridData' = copyOf(gridRef)
    /\ gridDataIsLive' = FALSE
    /\ stats' = analyzeDomains(gridRef, sizeRef)
    /\ call' = [call EXCEPT !.mcs = @ + 1, !.analyses = @ + 1]
    /\ leaveMCS
    /\ frameCountRef' = frameCountRef + 1

\* App lines 105-107: handleStep after its performMCS call.
stepAfterMCS ==
    /\ gridData' = copyOf(gridRef)
    /\ gridDataIsLive' = FALSE
    /\ stats' = analyzeDomains(gridRef, sizeRef)
    /\ call' = [call EXCEPT !.mcs = @ + 1, !.analyses = @ + 1]
    /\ leaveMCS
    /\ UNCHANGED <<frameCountRef>>

\* shouldUpdateStats without the throttle: every frame analyzes.
shouldUpdateStatsAlways(speed, frameCount) == TRUE

\* shouldUpdateStats with the throttle alone.
shouldUpdateStatsThrottled(speed, frameCount) == frameCount % 10 = 0

\* App line 76
shouldUpdateStats(speed, frameCount) ==
    doubleBelowOne(speed) \/ frameCount % 10 = 0

\* App lines 70-81: loop after its last performMCS call.
loopAfterMCS ==
    LET frameCount == frameCountRef + 1
        should == shouldUpdateStats(speedRef, frameCount)
    IN  /\ gridData' = copyOf(gridRef)
        /\ gridDataIsLive' = FALSE
        /\ frameCountRef' = frameCount
        /\ stats' = IF should THEN analyzeDomains(gridRef, sizeRef) ELSE stats
        /\ call' = [call EXCEPT !.mcs = @ + 1,
                                !.analyses = IF should THEN @ + 1 ELSE @]
        /\ leaveMCS

\* loop without the test of runningRef: a tick sweeps when paused too.
loopAlways ==
    /\ pc = "idle"
    /\ pending = {}
    /\ call' = NoCall("loop")
    /\ LET sum == doubleAdd(accumulatorRef, speedRef)
           n == doubleFloor(sum)
       IN  IF n > 0
           THEN /\ accumulatorRef' = doubleSubInt(sum, n)
                /\ updatesToPerform' = n
                /\ i' = 0
                /\ enterMCS("loop")
           ELSE /\ accumulatorRef' = sum
                /\ UNCHANGED <<pc, caller, updatesToPerform, i, k, expTable>>
    /\ UNCHANGED <<size, temperature, speedIndex, isRunning, gridData, stats,
                   gridRef, runningRef, tempRef, sizeRef, speedRef,
                   frameCountRef, gridDataIsLive, pending>>

\* App lines 52-66: one animation frame, up to the first performMCS call.
loop ==
    /\ pc = "idle"
    /\ pending = {}
    /\ call' = NoCall("loop")
    /\ IF runningRef
       THEN LET sum == doubleAdd(accumulatorRef, speedRef)
                n == doubleFloor(sum)
            IN  IF n > 0
                THEN /\ accumulatorRef' = doubleSubInt(sum, n)
                     /\ updatesToPerform' = n
                     /\ i' = 0
                     /\ enterMCS("loop")
                ELSE /\ accumulatorRef' = sum
                     /\ UNCHANGED <<pc, caller, updatesToPerform, i, k, expTable>>
       ELSE UNCHANGED <<accumulatorRef, pc, caller, updatesToPerform, i, k, expTable>>
    /\ UNCHANGED <<size, temperature, speedIndex, isRunning, gridData, stats,
                   gridRef, runningRef, tempRef, sizeRef, speedRef,
                   frameCountRef, gridDataIsLive, pending>>

\* moreAttempts with the test k <= area.
moreAttemptsOffByOne(count, N) == count <= N * N

\* performMCS line 31: the loop test.
moreAttempts(count, N) == count < N * N

\* performMCS lines 31-60: one flip attempt, at the random site idx with
\* the draw u (made only when dE > 0).
mcsAttempt(idx, u) ==
    /\ pc = "mcs"
    /\ moreAttempts(k, sizeRef)
    /\ (u # NoDraw) = (energyDelta(gridRef, sizeRef, idx) > 0)
    /\ gridRef' = flipAttempt(gridRef, sizeRef, idx, u, expTable)
    /\ gridData' = IF gridDataIsLive THEN gridRef' ELSE gridData
    /\ k' = k + 1
    /\ UNCHANGED <<size, temperature, speedIndex, isRunning, stats, runningRef,
                   tempRef, sizeRef, speedRef, accumulatorRef, frameCountRef,
                   gridDataIsLive, pending, pc, caller, updatesToPerform, i,
                   expTable, call>>

\* performMCS line 61-62: the call returns, to loop (lines 65-67, which call
\* again while i < updatesToPerform) or to handleStep.
mcsReturn ==
    /\ pc = "mcs"
    /\ ~moreAttempts(k, sizeRef)
    /\ IF caller = "loop"
       THEN IF i + 1 < updatesToPerform
            THEN /\ i' = i + 1
                 /\ enterMCS("loop")
                 /\ call' = [call EXCEPT !.mcs = @ + 1]
                 /\ UNCHANGED <<gridData, gridDataIsLive, stats, frameCountRef,
                                updatesToPerform>>
            ELSE loopAfterMCS
       ELSE stepAfterMCS
    /\ UNCHANGED <<size, temperature, speedIndex, isRunning, gridRef, runningRef,
                   tempRef, sizeRef, speedRef, accumulatorRef, pending>>

\* GridCanvas lines 36-47: the cells the effect paints for its props, as
\* <<column, row, spin>>: cell j of grid goes to column j % size and row
\* floor(j / size).  The effect runs after every commit in which the grid or
\* the size prop changed, before the effects of App (a child's effects run
\* first); App line 229 passes gridData and size.
GridCanvasCells(grid, n) == {<<j % n, j \div n, grid[j]>> : j \in DOMAIN grid}

\* ------------------------------------------------------ specifications ----

\* The sites Math.floor(Math.random() * area) can pick (performMCS line 33).
Sites == 0 .. sizeRef * sizeRef - 1

\* The positions of the speed slider the model moves to: 0.5, 1 and 2.
SpeedIndexes == {4, 5, 6}

ModelSizes == {SIZES[j] : j \in DOMAIN SIZES}

Init == \E coin \in Coins(DEFAULT_SIZE) : InitApp(DEFAULT_SIZE, coin)

Next ==
    \/ runEffects /\ UNCHANGED <<att, win>>
    \/ \E n \in ModelSizes : setSizeTo(n) /\ UNCHANGED <<att, win>>
    \/ \E t \in Temperatures : setTemperatureTo(t) /\ UNCHANGED <<att, win>>
    \/ \E j \in SpeedIndexes : setSpeedIndexTo(j) /\ UNCHANGED <<att, win>>
    \/ toggleRunning /\ UNCHANGED <<att, win>>
    \/ handleReset /\ UNCHANGED <<att, win>>
    \/ handleStep /\ UNCHANGED <<att, win>>
    \/ frameCountRef < MaxFrames /\ loop /\ UNCHANGED <<att, win>>
    \/ \E idx \in Sites, u \in Draws \cup {NoDraw} :
          mcsAttempt(idx, u) /\ UNCHANGED <<att, win>>
    \/ mcsReturn /\ UNCHANGED <<att, win>>

Spec == Init /\ [][Next]_vars

\* One step-once sweep and its analysis, from every fresh lattice of side
\* 1, 2 and 3; side 3 is the least side whose four neighbours are four
\* different cells.
EngineSizes == {1, 2, 3}

InitEngine == \E n \in EngineSizes : \E coin \in Coins(n) : InitApp(n, coin)

NextEngine ==
    \/ runEffects /\ UNCHANGED <<att, win>>
    \/ \E t \in Temperatures : gridDataIsLive /\ setTemperatureTo(t) /\ UNCHANGED <<att, win>>
    \/ gridDataIsLive /\ handleStep /\ UNCHANGED <<att, win>>
    \/ \E idx \in Sites, u \in Draws \cup {NoDraw} :
          /\ mcsAttempt(idx, u)
          /\ att' = [idx |-> idx, u |-> u, s |-> gridRef[idx], n |-> att.n + 1]
          /\ UNCHANGED win
    \/ mcsReturn /\ UNCHANGED <<att, win>>

SpecEngine == InitEngine /\ [][NextEngine]_vars

\* The scheduler on the one-cell lattice, with the speed factors 0.1, 0.25
\* and 1, followed tick by tick from the moment the accumulator was zeroed.
SchedSpeedIndexes == {2, 3, 5}

\* The window's record after the tick just taken.
observeTick ==
    win' = IF runningRef
           THEN [ticks |-> win.ticks + 1,
                 owed |-> exactAdd(win.owed, speedRef),
                 done |-> win.done + updatesToPerform']
           ELSE win

InitSched == \E coin \in Coins(1) : InitApp(1, coin)

NextSched ==
    \/ runEffects /\ win' = (IF "size" \in pending THEN NoWindow ELSE win) /\ UNCHANGED att
    \/ \E j \in SchedSpeedIndexes : setSpeedIndexTo(j) /\ UNCHANGED <<att, win>>
    \/ toggleRunning /\ UNCHANGED <<att, win>>
    \/ handleReset /\ win' = NoWindow /\ UNCHANGED att
    \/ win.ticks < MaxTicks /\ loop /\ observeTick /\ UNCHANGED att
    \/ \E idx \in Sites, u \in Draws \cup {NoDraw} :
          mcsAttempt(idx, u) /\ UNCHANGED <<att, win>>
    \/ mcsReturn /\ UNCHANGED <<att, win>>

SpecSched == InitSched /\ [][NextSched]_vars

\* One step-once sweep from the side 4 checkerboard: both createGrid calls
\* (first render and size effect) draw the alternating lattice, in which
\* the four neighbours of every cell hold the opposite spin.
BoardSize == 4

CheckerCoin == [c \in 0 .. BoardSize * BoardSize - 1 |->
                   ((c % BoardSize) + (c \div BoardSize)) % 2 = 0]

\* The sites the attempts after the first pick: a cell, its right and lower
\* neighbours, and two cells further off.  The first attempt picks any site.
BoardSites == {0, 1, 4, 5, 10}

InitBoard == InitApp(BoardSize, CheckerCoin)

NextBoard ==
    \/ runEffectsWith({CheckerCoin}) /\ UNCHANGED <<att, win>>
    \/ \E t \in Temperatures : gridDataIsLive /\ setTemperatureTo(t) /\ UNCHANGED <<att, win>>
    \/ gridDataIsLive /\ handleStep /\ UNCHANGED <<att, win>>
    \/ \E idx \in (IF k = 0 THEN Sites ELSE BoardSites), u \in Draws \cup {NoDraw} :
          /\ mcsAttempt(idx, u)
          /\ att' = [idx |-> idx, u |-> u, s |-> gridRef[idx], n |-> att.n + 1]
          /\ UNCHANGED win
    \/ mcsReturn /\ UNCHANGED <<att, win>>

SpecBoard == InitBoard /\ [][NextBoard]_vars

\* The throttle on the one-cell lattice, with the speed factors 1 and 2,
\* followed over the running ticks since the last reset (or the mount).
FastSpeedIndexes == {5, 6}

\* The running ticks the model follows after a reset.
MaxFastTicks == 21

\* The count of running ticks after the tick just taken.
countTick ==
    win' = IF runningRef THEN [win EXCEPT !.ticks = @ + 1] ELSE win

InitFast == \E coin \in Coins(1) : InitApp(1, coin)

NextFast ==
    \/ runEffects /\ UNCHANGED <<att, win>>
    \/ \E j \in FastSpeedIndexes : setSpeedIndexTo(j) /\ UNCHANGED <<att, win>>
    \/ toggleRunning /\ UNCHANGED <<att, win>>
    \/ handleReset /\ win' = NoWindow /\ UNCHANGED att
    \/ handleStep /\ UNCHANGED <<att, win>>
    \/ win.ticks < MaxFastTicks /\ loop /\ countTick /\ UNCHANGED att
    \/ \E idx \in Sites, u \in Draws \cup {NoDraw} :
          mcsAttempt(idx, u) /\ UNCHANGED <<att, win>>
    \/ mcsReturn /\ UNCHANGED <<att, win>>

SpecFast == InitFast /\ [][NextFast]_vars

\* ---------------------------------------------------------- reference ----

\* The coordinates of a cell (spec section 3: x = i mod N, y = i div N).
RefX(c, N) == c % N

RefY(c, N) == c \div N

\* a and b are 4-neighbours on the torus of side N.
RefAdjacent(a, b, N) ==
    \/ /\ RefY(a, N) = RefY(b, N)
       /\ \/ RefX(b, N) = (RefX(a, N) + 1) % N
          \/ RefX(a, N) = (RefX(b, N) + 1) % N
    \/ /\ RefX(a, N) = RefX(b, N)
       /\ \/ RefY(b, N) = (RefY(a, N) + 1) % N
          \/ RefY(a, N) = (RefY(b, N) + 1) % N

\* The sum of the spins of the four neighbours of c: right, left, below, above.
RefNeighborSum(grid, N, c) ==
    LET at(x, y) == grid[((y + N) % N) * N + ((x + N) % N)]
    IN  at(RefX(c, N) + 1, RefY(c, N)) + at(RefX(c, N) - 1, RefY(c, N))
        + at(RefX(c, N), RefY(c, N) + 1) + at(RefX(c, N), RefY(c, N) - 1)

\* The least set that holds S and every same-spin neighbour of a member.
RECURSIVE RefGrow(_, _, _)
RefGrow(grid, N, S) ==
    LET T == S \cup {b \in DOMAIN grid :
                        \E a \in S : RefAdjacent(a, b, N) /\ grid[b] = grid[a]}
    IN  IF T = S THEN S ELSE RefGrow(grid, N, T)

\* The domain of cell c, and the domains of the lattice.
RefDomain(grid, N, c) == RefGrow(grid, N, {c})

RefDomains(grid, N) == {RefDomain(grid, N, c) : c \in DOMAIN grid}

\* dist is the size distribution of the domains of the lattice.
IsDistributionOf(dist, grid, N) ==
    LET doms == RefDomains(grid, N)
    IN  /\ {dist[j].size : j \in DOMAIN dist} = {Cardinality(D) : D \in doms}
        /\ \A j \in DOMAIN dist :
              dist[j].count = Cardinality({D \in doms : Cardinality(D) = dist[j].size})
        /\ \A j1, j2 \in DOMAIN dist : dist[j1].size = dist[j2].size => j1 = j2

\* The sum of size * count over the pairs of dist.
RECURSIVE WeightedSum(_, _)
WeightedSum(dist, j) ==
    IF j > Len(dist) THEN 0
    ELSE dist[j].size * dist[j].count + WeightedSum(dist, j + 1)

\* How often cell c occurs in the clusters.
Occurrences(clusters, c) ==
    Cardinality({p \in UNION {{a} \X DOMAIN clusters[a] : a \in DOMAIN clusters} :
                    clusters[p[1]][p[2]] = c})

\* An operation has just finished.
AfterOp(op) == pc = "idle" /\ call.op = op

\* ------------------------------------------------------------- claims ----

\* C1: in every reachable state, whatever createGrid, sweeps, ticks, steps,
\* resets and size changes have happened, every cell of the live lattice is
\* +1 or -1 and the lattice has N*N cells for the size N (sizeRef) that
\* performMCS and analyzeDomains are called with.
C1_LatticeInvariant ==
    /\ DOMAIN gridRef = 0 .. sizeRef * sizeRef - 1
    /\ Length(gridRef) = sizeRef * sizeRef
    /\ \A c \in DOMAIN gridRef : gridRef[c] \in Spin

\* A tick with sweeps has finished on the lattice of a changed size.
C1_Witness ==
    /\ AfterOp("loop")
    /\ call.mcs >= 1
    /\ sizeRef # DEFAULT_SIZE
    /\ frameCountRef >= 2

\* C2: every flip attempt negates the selected site if and only if dE <= 0
\* or the draw is below exp(-dE/T), with s the site's spin before and dE =
\* 2 * s * (sum of the four neighbours); so an uphill move (dE = 4 or 8) is
\* accepted iff the draw is below the table entry of that dE, and with a
\* draw at or above both entries the site flips iff dE <= 0.
C2_AcceptanceRule ==
    [][(pc = "mcs" /\ k' = k + 1) =>
          LET idx == att'.idx
              u == att'.u
              s == gridRef[idx]
              dE == 2 * s * RefNeighborSum(gridRef, sizeRef, idx)
              flipped == gridRef'[idx] = -s
          IN  /\ flipped <=> (dE <= 0 \/ u < MathExpNeg(dE, tempRef))
              /\ ~flipped => gridRef'[idx] = s
              /\ dE \in {4, 8} => (flipped <=> u < expTable[dE])
              /\ (u >= expTable[4] /\ u >= expTable[8]) => (flipped <=> dE <= 0)
      ]_vars

\* On a side 3 lattice an uphill attempt with dE = 4 was put to the draw
\* and accepted.
C2_Witness ==
    /\ pc = "mcs"
    /\ sizeRef = 3
    /\ att.n >= 1
    /\ att.u # NoDraw
    /\ gridRef[att.idx] = -att.s
    /\ 2 * att.s * RefNeighborSum(gridRef, sizeRef, att.idx) = 4

\* C3: for a lattice of side N >= 1 the sizes analyzeDomains returns, each
\* weighted by its count, sum to N*N, and every cell is counted in exactly
\* one domain: none is left out, none is counted twice (sides 1 and 2, where
\* neighbours coincide, included).
C3_DomainPartition ==
    (AfterOp("step") /\ call.analyses = 1) =>
        LET found == findClusters(gridRef, sizeRef)
        IN  /\ WeightedSum(stats, 1) = sizeRef * sizeRef
            /\ stats = sortedEntries(tally(found.clusterSizes, 1, <<>>))
            /\ \A c \in 0 .. sizeRef * sizeRef - 1 :
                  Occurrences(found.clusters, c) = 1
            /\ \A a \in DOMAIN found.clusters :
                  Len(found.clusters[a]) = found.clusterSizes[a]

\* The analysis of a side 2 lattice with two domains of two cells each.
C3_Witness ==
    /\ AfterOp("step")
    /\ call.analyses = 1
    /\ sizeRef = 2
    /\ stats = <<[size |-> 2, count |-> 2]>>

\* C5: the sizes analyzeDomains tallies are, as a multiset, the sizes of the
\* maximal sets of same-spin cells connected through toroidal 4-neighbour
\* adjacency; each flood fill collects all and only the cells of the domain
\* of its start cell.
C5_DomainsAreComponents ==
    (AfterOp("step") /\ call.analyses = 1) =>
        LET found == findClusters(gridRef, sizeRef)
        IN  /\ IsDistributionOf(stats, gridRef, sizeRef)
            /\ \A a \in DOMAIN found.clusters :
                  {found.clusters[a][b] : b \in DOMAIN found.clusters[a]}
                      = RefDomain(gridRef, sizeRef, found.clusters[a][1])

\* The analysis of a side 3 lattice whose domains wrap around the edge: one
\* column of one spin and two columns, joined through the wrap, of the other.
C5_Witness ==
    /\ AfterOp("step")
    /\ call.analyses = 1
    /\ sizeRef = 3
    /\ \A c \in DOMAIN gridRef : gridRef[c] = (IF c % 3 = 1 THEN 1 ELSE -1)
    /\ stats = <<[size |-> 3, count |-> 1], [size |-> 6, count |-> 1]>>

\* C6: one performMCS call on a lattice of side N makes exactly N*N flip
\* attempts and then returns; an attempt changes at most the selected site,
\* only by negating it, and leaves every other cell and the length alone.
C6_SweepFrame ==
    [][/\ (pc = "mcs" /\ k' = k + 1) =>
             /\ att'.n = att.n + 1
             /\ DOMAIN gridRef' = DOMAIN gridRef
             /\ \A c \in DOMAIN gridRef : c # att'.idx => gridRef'[c] = gridRef[c]
             /\ gridRef'[att'.idx] \in {gridRef[att'.idx], -gridRef[att'.idx]}
       /\ (pc = "mcs" /\ call'.mcs = call.mcs + 1) =>
             /\ att.n = sizeRef * sizeRef
             /\ gridRef' = gridRef
       /\ (pc = "idle" /\ pc' = "mcs") => att.n = 0
      ]_vars

\* A call on the side 3 lattice has returned after its attempts, some of
\* which flipped their site.
C6_Witness ==
    /\ AfterOp("step")
    /\ call.mcs = 1
    /\ sizeRef = 3
    /\ att.n = 9
    /\ gridRef[att.idx] = -att.s

\* C7: for every site and every lattice of cells +1 and -1, for every side
\* N >= 1, the energy delta performMCS computes is one of -8, -4, 0, 4, 8,
\* so every positive dE is a key of the acceptance table.
C7_EnergyDeltaDomain ==
    \A idx \in Sites :
        LET dE == energyDelta(gridRef, sizeRef, idx)
        IN  /\ dE \in {-8, -4, 0, 4, 8}
            /\ (pc = "mcs" /\ dE > 0) => dE \in DOMAIN expTable

\* Inside a sweep of a side 3 lattice that has sites of dE = 4 and dE = -4.
C7_Witness ==
    /\ pc = "mcs"
    /\ sizeRef = 3
    /\ \E idx \in Sites : energyDelta(gridRef, sizeRef, idx) = 4
    /\ \E idx \in Sites : energyDelta(gridRef, sizeRef, idx) = -4
    /\ \E idx \in Sites : energyDelta(gridRef, sizeRef, idx) = 8

\* C4: over a window of K consecutive running ticks with no reset or size
\* change in between, the sweeps executed number the floor of (accumulator
\* at the window's start + the sum of the speed factors supplied); with a
\* constant factor f from accumulator 0 that sum is f*K and the total
\* differs from it by less than 1.  The windows followed start where the
\* accumulator was zeroed; win.owed is the sum of the factors, not rounded.
C4_ThroughputLaw ==
    (pc = "idle" /\ pending = {}) =>
        /\ win.done = doubleFloor(win.owed)
        /\ win.owed[1] - win.done * UnitHigh \in 0 .. UnitHigh - 1

\* C8: on every running tick whose speed factor is below 1 the analyzer is
\* invoked, however many sweeps the tick executed.
C8_AnalyzeEverySlowTick ==
    (AfterOp("loop") /\ runningRef /\ doubleBelowOne(speedRef)) =>
        call.analyses >= 1

\* C8 as amended: a running tick whose speed factor is below 1 invokes the
\* analyzer once, on the lattice its sweeps left, if it executed at least
\* one sweep, and not at all if it executed none.
C8_AnalyzeEverySlowUpdate ==
    (AfterOp("loop") /\ runningRef /\ doubleBelowOne(speedRef)) =>
        /\ call.mcs >= 1 =>
              call.analyses = 1 /\ IsDistributionOf(stats, gridRef, sizeRef)
        /\ call.mcs = 0 => call.analyses = 0

\* A slow tick that executed a sweep and analyzed.
C8_Witness ==
    /\ AfterOp("loop")
    /\ runningRef
    /\ doubleBelowOne(speedRef)
    /\ call.mcs = 1
    /\ call.analyses = 1
    /\ stats # <<>>

\* C9: step-once performs exactly one sweep on the live lattice, then one
\* analysis of the lattice that sweep left, whose result becomes the stats;
\* the accumulator, the frame counter and the running flag stay as they were.
C9_StepOnce ==
    [][call'.op = "step" =>
          /\ accumulatorRef' = accumulatorRef
          /\ frameCountRef' = frameCountRef
          /\ isRunning' = isRunning
          /\ runningRef' = runningRef
          /\ (pc = "mcs" /\ pc' = "idle") =>
                /\ call'.mcs = 1
                /\ call'.analyses = 1
                /\ k = sizeRef * sizeRef
                /\ gridRef' = gridRef
                /\ IsDistributionOf(stats', gridRef', sizeRef')
      ]_vars

\* A step has finished while sweeps were owed and frames counted.
C9_Witness ==
    /\ AfterOp("step")
    /\ call.mcs = 1
    /\ call.analyses = 1
    /\ accumulatorRef # DoubleZero
    /\ frameCountRef > 0
    /\ sizeRef = 2

\* C10: reset invokes exactly one sweep and one analysis, so that right
\* after a reset the stats are the analysis of the current lattice.
C10_ResetSweepsAndAnalyzes ==
    AfterOp("reset") =>
        /\ call.mcs = 1
        /\ call.analyses = 1
        /\ IsDistributionOf(stats, gridRef, sizeRef)

\* C10 as amended: reset invokes no sweep and no analysis; it replaces the
\* lattice by a fresh random one of the current size, publishes empty
\* stats, stops the simulation and zeroes the accumulator and the frame
\* counter.
C10_ResetClears ==
    AfterOp("reset") =>
        /\ call.mcs = 0
        /\ call.analyses = 0
        /\ stats = <<>>
        /\ ~isRunning
        /\ accumulatorRef = DoubleZero
        /\ frameCountRef = 0
        /\ Length(gridRef) = size * size
        /\ gridData = gridRef

\* A reset of a running simulation.
C10_Witness ==
    /\ AfterOp("reset")
    /\ pending = {"isRunning"}
    /\ runningRef
    /\ stats = <<>>

\* The flood fill with the frontier consumed first-in-first-out: the entry
\* pushed first is taken (queue.shift() where the code has queue.pop()).
shiftFrom(queue) == [curr |-> Head(queue), rest |-> Tail(queue)]

RECURSIVE floodFillFifo(_, _, _, _)
floodFillFifo(grid, N, spinType, st) ==
    IF Len(st.queue) = 0 THEN st
    ELSE LET p == shiftFrom(st.queue)
             taken == [st EXCEPT !.queue = p.rest,
                                 !.currentSize = st.currentSize + 1,
                                 !.cells = Append(st.cells, p.curr)]
         IN  floodFillFifo(grid, N, spinType,
                 pushNeighbors(grid, spinType, neighborsOf(p.curr, N), 1, taken))

RECURSIVE scanCellsFifo(_, _, _, _)
scanCellsFifo(grid, N, pos, acc) ==
    IF pos >= N * N THEN acc
    ELSE LET startIdx == getIdx(pos % N, pos \div N, N)
         IN  IF acc.visited[startIdx] # 0 THEN scanCellsFifo(grid, N, pos + 1, acc)
             ELSE LET done == floodFillFifo(grid, N, grid[startIdx],
                                  [visited |-> [acc.visited EXCEPT ![startIdx] = 1],
                                   queue |-> <<startIdx>>,
                                   currentSize |-> 0,
                                   cells |-> <<>>])
                  IN  scanCellsFifo(grid, N, pos + 1,
                          [visited |-> done.visited,
                           clusterSizes |-> Append(acc.clusterSizes, done.currentSize),
                           clusters |-> Append(acc.clusters, done.cells)])

findClustersFifo(grid, N) ==
    scanCellsFifo(grid, N, 0,
        [visited |-> [c \in 0 .. N * N - 1 |-> 0],
         clusterSizes |-> <<>>,
         clusters |-> <<>>])

\* C11: analyzeDomains is pure and deterministic.  After step-once the live
\* lattice still equals the copy handleStep took before the analysis; a
\* second call on that lattice returns the sequence the first one
\* published; and the sequence, the cells marked and the sizes in the order
\* the domains are found are the same when the flood-fill frontier is
\* consumed first-in-first-out instead of last-in-first-out.
C11_AnalyzerPure ==
    (AfterOp("step") /\ call.analyses = 1) =>
        LET lifo == findClusters(gridRef, sizeRef)
            fifo == findClustersFifo(gridRef, sizeRef)
        IN  /\ ~gridDataIsLive
            /\ gridRef = gridData
            /\ analyzeDomains(gridRef, sizeRef) = stats
            /\ lifo.clusterSizes = fifo.clusterSizes
            /\ lifo.visited = fifo.visited
            /\ sortedEntries(tally(fifo.clusterSizes, 1, <<>>)) = stats

\* The analysis of a side 3 lattice on which the two orders visit the cells
\* of some domain in different sequences.
C11_Witness ==
    /\ AfterOp("step")
    /\ call.analyses = 1
    /\ sizeRef = 3
    /\ stats = analyzeDomains(gridRef, sizeRef)
    /\ findClusters(gridRef, sizeRef).clusters
           # findClustersFifo(gridRef, sizeRef).clusters

\* The sum of the counts of the pairs of dist.
RECURSIVE CountSum(_, _)
CountSum(dist, j) ==
    IF j > Len(dist) THEN 0 ELSE dist[j].count + CountSum(dist, j + 1)

\* C12: the sequence analyzeDomains returns is sorted strictly ascending by
\* size: every size is a positive integer that appears in one pair only,
\* every count is a positive integer, and the counts sum to the number of
\* domains found.
C12_SortedDistribution ==
    /\ \A j \in DOMAIN stats :
          /\ stats[j].size \in Nat \ {0}
          /\ stats[j].count \in Nat \ {0}
    /\ \A a, b \in DOMAIN stats : a < b => stats[a].size < stats[b].size
    /\ (AfterOp("step") /\ call.analyses = 1) =>
          /\ stats = analyzeDomains(gridRef, sizeRef)
          /\ CountSum(stats, 1) = Len(findClusters(gridRef, sizeRef).clusterSizes)

\* The analysis of a side 3 lattice with domains of three different sizes,
\* two of them of one size.
C12_Witness ==
    /\ AfterOp("step")
    /\ call.analyses = 1
    /\ sizeRef = 3
    /\ Len(stats) = 3
    /\ \E j \in DOMAIN stats : stats[j].count >= 2

\* The flip attempt recorded in att flipped its site.
LastAttemptFlipped == gridRef[att.idx] = -att.s

\* The dE the attempt recorded in att computed: an attempt changes no
\* neighbour of its site, so a flip only negates the site's dE.
LastAttemptDelta ==
    IF LastAttemptFlipped THEN -energyDelta(gridRef, sizeRef, att.idx)
    ELSE energyDelta(gridRef, sizeRef, att.idx)

\* C13: starting from the side 4 checkerboard at T = 1, every flip attempt
\* of a performMCS sweep is accepted, whatever sites are picked and whatever
\* values are drawn; analyzeDomains on the initial checkerboard returns
\* [(1, 16)].
C13_EveryAttemptAccepted ==
    /\ (att.n >= 1 /\ tempRef = 1000) => LastAttemptFlipped
    /\ att.n = 0 =>
          analyzeDomains(gridRef, sizeRef) = <<[size |-> 1, count |-> 16]>>

\* C13 as amended: on the checkerboard every site has dE = -8, so the first
\* attempt of the sweep is accepted whatever site is picked, with no draw;
\* a later attempt is accepted iff its dE <= 0 or its draw is below
\* exp(-dE/T), and a site picked again before a neighbour of it changed has
\* dE = 8.  analyzeDomains on the initial checkerboard returns [(1, 16)].
C13_FirstAttemptAccepted ==
    /\ att.n = 0 =>
          /\ gridRef = createGrid(BoardSize, CheckerCoin)
          /\ \A idx \in Sites : energyDelta(gridRef, sizeRef, idx) = -8
          /\ analyzeDomains(gridRef, sizeRef) = <<[size |-> 1, count |-> 16]>>
    /\ att.n = 1 => LastAttemptFlipped /\ att.u = NoDraw
    /\ att.n >= 1 =>
          /\ LastAttemptFlipped <=>
                \/ LastAttemptDelta <= 0
                \/ att.u < MathExpNeg(LastAttemptDelta, tempRef)
          /\ (att.n = 2 /\ pc = "mcs"
                /\ \A c \in DOMAIN gridRef : c # att.idx =>
                       gridRef[c] = createGrid(BoardSize, CheckerCoin)[c])
             => LastAttemptDelta = 8

\* At T = 1 the second attempt of the sweep picked the site of the first
\* again, drew 0.5 and was rejected.
C13_Witness ==
    /\ pc = "mcs"
    /\ tempRef = 1000
    /\ att.n = 2
    /\ att.u = 500000
    /\ ~LastAttemptFlipped
    /\ LastAttemptDelta = 8

\* Every cell of the lattice is UP.
AllUp(grid) == \A c \in DOMAIN grid : grid[c] = 1

\* On an all-UP lattice every site has dE = 8 and the analysis finds one
\* domain, of all the cells.
AllUpFacts ==
    AllUp(gridRef) =>
        /\ \A idx \in Sites : energyDelta(gridRef, sizeRef, idx) = 8
        /\ analyzeDomains(gridRef, sizeRef)
               = <<[size |-> sizeRef * sizeRef, count |-> 1]>>

\* The lattice was all UP before the flip attempt recorded in att.
AllUpBeforeLastAttempt ==
    /\ att.n >= 1
    /\ att.s = 1
    /\ \A c \in DOMAIN gridRef : c # att.idx => gridRef[c] = 1

\* C14: an all-UP lattice (side 2 in the scenario, sides 1 and 3 as well)
\* gives dE = 8 at every site; an attempt of a sweep on it whose draw is at
\* or above the acceptance value of dE = 8 flips nothing, so a sweep of
\* such draws leaves it all UP; and analyzeDomains returns one domain of
\* size N*N.
C14_AllUpStaysUp ==
    /\ AllUpFacts
    /\ AllUpBeforeLastAttempt =>
          /\ att.u # NoDraw
          /\ att.u >= MathExpNeg(8, tempRef) => AllUp(gridRef)
          /\ att.u < MathExpNeg(8, tempRef) => gridRef[att.idx] = -1
    /\ (AfterOp("step") /\ AllUp(gridRef)) =>
          stats = <<[size |-> sizeRef * sizeRef, count |-> 1]>>

\* At T = 1 a sweep of four attempts on the side 2 lattice has ended with
\* the draw 0.5 on a lattice that is all UP, and the analysis found [(4, 1)].
C14_Witness ==
    /\ AfterOp("step")
    /\ sizeRef = 2
    /\ tempRef = 1000
    /\ att.n = 4
    /\ att.u = 500000
    /\ att.s = 1
    /\ AllUp(gridRef)
    /\ stats = <<[size |-> 4, count |-> 1]>>

\* A whole number n, and a number of quarters, as doubles.
DoubleOfInt(n) == <<n * UnitHigh, 0>>

Quarters(n) == <<n * (UnitHigh \div 4), 0>>

C16_AtomicSwap ==
    /\ Length(gridRef) = sizeRef * sizeRef
    /\ pc = "idle" =>
          /\ Length(gridData) = size * size
          /\ {<<p[1], p[2]>> : p \in GridCanvasCells(gridData, size)}
                 = (0 .. size - 1) \X (0 .. size - 1)

\* C17: the lattice handed to the renderer (gridData) is never the array
\* object performMCS mutates (gridRef.current): not after initialization,
\* a tick, a step, a reset or a size change.
C17_GridDataIndependent ==
    (pc = "idle" /\ pending = {}) => ~gridDataIsLive

\* C18: while the speed factor is at least 1 every running tick executes
\* sweeps and increments the frame counter, which so counts the running
\* ticks since the reset; a tick invokes the analyzer, once, iff the counter
\* is a multiple of 10 after the increment: on the 10th running tick after
\* a reset first, and then every 10 ticks.
C18_EveryTenthTick ==
    /\ frameCountRef = (IF pc = "mcs" /\ call.op = "loop"
                        THEN win.ticks - 1 ELSE win.ticks)
    /\ (AfterOp("loop") /\ runningRef /\ ~doubleBelowOne(speedRef)) =>
          /\ call.mcs = doubleFloor(speedRef)
          /\ call.analyses = (IF win.ticks % 10 = 0 THEN 1 ELSE 0)
          /\ call.analyses = 1 => stats = analyzeDomains(gridRef, sizeRef)

\* The 20th running tick after a reset has analyzed, at the factor 2.
C18_Witness ==
    /\ AfterOp("loop")
    /\ runningRef
    /\ speedRef = DoubleOfInt(2)
    /\ win.ticks = 20
    /\ frameCountRef = 20
    /\ call.mcs = 2
    /\ call.analyses = 1

\* m * f, not rounded.
RECURSIVE TimesInt(_, _)
TimesInt(f, m) == IF m = 0 THEN DoubleZero ELSE exactAdd(TimesInt(f, m - 1), f)

\* ceil(1/f) for f > 0: the least m from m0 on with m * f >= 1.
RECURSIVE CeilInverse(_, _)
CeilInverse(f, m0) ==
    IF doubleFloor(TimesInt(f, m0)) >= 1 THEN m0 ELSE CeilInverse(f, m0 + 1)

\* Every running tick since the accumulator was zeroed had the speed
\* factor of now: the factors supplied sum to ticks * factor.  (No mix of
\* 0.1, 0.25 and 1 over at most MaxTicks ticks has such a sum.)
ConstantFactorSince == win.owed = TimesInt(speedRef, win.ticks)

\* C19: with a constant speed factor f below 1, running from accumulator 0,
\* a tick executes a sweep, one, iff its number is a multiple of ceil(1/f).
C19_SweepEveryCeilInverse ==
    (/\ AfterOp("loop")
     /\ runningRef
     /\ doubleBelowOne(speedRef)
     /\ win.ticks >= 1
     /\ ConstantFactorSince) =>
        call.mcs = (IF win.ticks % CeilInverse(speedRef, 1) = 0 THEN 1 ELSE 0)

\* C20: a tick that arrives while the simulation is not running changes
\* nothing: live lattice, accumulator, frame counter, displayed grid and
\* stats stay, and no sweep starts; pausing and resuming keep the
\* accumulator, so what was owed at the pause is owed at the resume; reset
\* and size change stop the simulation and zero the accumulator.
C20_PausedTickIsInert ==
    [][/\ (call'.op = "loop" /\ pc = "idle" /\ ~isRunning) =>
             /\ ~runningRef
             /\ pc' = "idle"
             /\ UNCHANGED <<gridRef, accumulatorRef, frameCountRef, gridData,
                            stats, sizeRef, isRunning, runningRef>>
       /\ (call'.op = "toggle"
             \/ (call'.op = "effects" /\ "size" \notin pending)) =>
             UNCHANGED <<accumulatorRef, gridRef, frameCountRef>>
       /\ (call'.op = "reset"
             \/ (call'.op = "effects" /\ "size" \in pending)) =>
             /\ ~isRunning'
             /\ accumulatorRef' = DoubleZero
             /\ pending' \subseteq {"isRunning"}
       /\ (call.op \in {"reset", "effects"} /\ call'.op = "effects"
             /\ pending = {"isRunning"}) =>
             runningRef' = isRunning
      ]_vars

\* A tick arrived at a paused simulation that owes half a sweep, has
\* counted frames and has published stats.
C20_Witness ==
    /\ AfterOp("loop")
    /\ ~runningRef
    /\ ~isRunning
    /\ call.mcs = 0
    /\ accumulatorRef = <<UnitHigh \div 2, 0>>
    /\ frameCountRef > 0
    /\ stats # <<>>

\* The published stats are empty or weigh as much as the live lattice has
\* cells, and as the square of the size state once the effects have run.
StatsFitLattice ==
    stats # <<>> =>
        /\ WeightedSum(stats, 1) = Length(gridRef)
        /\ WeightedSum(stats, 1) = sizeRef * sizeRef
        /\ pending = {} => WeightedSum(stats, 1) = size * size

\* C21: in every state the published stats are empty or a distribution
\* whose sizes weighted by counts sum to the square of the current lattice
\* size.  The size effect and the reset empty them, so stats of a previous
\* size do not survive a size change; and the stats change only by being
\* emptied or by an analysis of the live lattice, so after a reset they
\* stay empty until the next analysis.
C21_StatsFitLattice ==
    [][/\ StatsFitLattice
       /\ StatsFitLattice'
       /\ (call'.op = "reset"
             \/ (call'.op = "effects" /\ "size" \in pending)) => stats' = <<>>
       /\ stats' # stats =>
             \/ /\ stats' = <<>>
                /\ call'.op \in {"reset", "effects"}
             \/ /\ call'.analyses = call.analyses + 1
                /\ stats' = analyzeDomains(gridRef', sizeRef')
                /\ IsDistributionOf(stats', gridRef', sizeRef')
      ]_vars

\* On a lattice of a changed size, with stats published by an earlier
\* step, a tick has swept without analyzing: the stats stay and still fit.
C21_Witness ==
    /\ AfterOp("loop")
    /\ call.mcs >= 1
    /\ call.analyses = 0
    /\ sizeRef # DEFAULT_SIZE
    /\ stats = <<[size |-> 1, count |-> 1]>>

=============================================================================
